---- MODULE Spec2Model ----
(***************************************************************************)
(* A model of assignment2/functional_style_checker.py: the parent-map      *)
(* builder, the four auditors and the report renderer, run in the order    *)
(* main() calls them.                                                      *)
(*                                                                         *)
(* A Python str is a sequence of code points; an ast node is a natural     *)
(* number (its identity) with a record of the attributes the checker       *)
(* reads; a tree is the children lists of its nodes, node 1 being the      *)
(* Module root.  An optional value (a docstring, an annotation) is a       *)
(* sequence of length 0 (None) or 1.                                       *)
(***************************************************************************)
EXTENDS Integers, Sequences, FiniteSets

VARIABLES tree, parents, packages, classes, functions, docstrings,
          missing_ann, bad_classes, bad_funcs, report, fault, pc

vars == <<tree, parents, packages, classes, functions, docstrings,
          missing_ann, bad_classes, bad_funcs, report, fault, pc>>

\* Largest number of nodes of an analysed tree, the Module root included.
MaxNodes == 4

\* Longest function name of the naming inputs.
MaxNameLen == 3

\* The value None where a node is expected (nodes are 1, 2, ...).
None == 0

\* The root of every tree: the ast.Module that ast.parse returns.
Root == 1

-----------------------------------------------------------------------------
\* String literals, as code points.

sFoo == <<70, 111, 111>>  \* 'Foo'
sFooBar == <<102, 111, 111, 95, 98, 97, 114>>  \* 'foo_bar'
sBar == <<98, 97, 114>>  \* 'bar'
sBaz == <<98, 97, 122>>  \* 'baz'
sGetValue == <<103, 101, 116, 86, 97, 108, 117, 101>>  \* 'getValue'
sOs == <<111, 115>>  \* 'os'
sDoc == <<100, 111, 99>>  \* 'doc'
sSpDoc == <<32, 100, 111, 99>>  \* ' doc'
sDot == <<46>>  \* '.'
sNewline == <<10>>  \* '\n'
sColonSp == <<58, 32>>  \* ': '
sCommaSp == <<44, 32>>  \* ', '
sNotFound == <<58, 32, 68, 111, 99, 83, 116, 114, 105, 110, 103, 32, 110, 111, 116, 32, 102, 111, 117, 110, 100, 46>>  \* ': DocString not found.'
sNone == <<78, 111, 110, 101>>  \* 'None'
hFile == <<70, 105, 108, 101, 32, 97, 110, 97, 108, 121, 115, 101, 100, 58, 32>>  \* 'File analysed: '
hTotal == <<84, 111, 116, 97, 108, 32, 110, 117, 109, 98, 101, 114, 32, 111, 102, 32, 108, 105, 110, 101, 115, 32, 111, 102, 32, 99, 111, 100, 101, 58, 32>>  \* 'Total number of lines of code: '
hFileStructure == <<70, 105, 108, 101, 32, 83, 116, 114, 117, 99, 116, 117, 114, 101>>  \* 'File Structure'
hPackages == <<80, 97, 99, 107, 97, 103, 101, 115, 32, 105, 109, 112, 111, 114, 116, 101, 100, 58, 32>>  \* 'Packages imported: '
hClasses == <<67, 108, 97, 115, 115, 101, 115, 32, 100, 101, 102, 105, 110, 101, 100, 58, 32>>  \* 'Classes defined: '
hFunctions == <<70, 117, 110, 99, 116, 105, 111, 110, 115, 32, 100, 101, 102, 105, 110, 101, 100, 58, 32>>  \* 'Functions defined: '
hDocStrings == <<68, 111, 99, 83, 116, 114, 105, 110, 103, 115>>  \* 'DocStrings'
hTypeCheck == <<84, 121, 112, 101, 32, 65, 110, 110, 111, 116, 97, 116, 105, 111, 110, 32, 67, 104, 101, 99, 107>>  \* 'Type Annotation Check'
sAllAnnotated == <<65, 108, 108, 32, 102, 117, 110, 99, 116, 105, 111, 110, 115, 32, 97, 110, 100, 32, 109, 101, 116, 104, 111, 100, 115, 32, 117, 115, 101, 32, 116, 121, 112, 101, 32, 97, 110, 110, 111, 116, 97, 116, 105, 111, 110, 115, 46>>  \* 'All functions and methods use type annotations.'
sMissing == <<77, 105, 115, 115, 105, 110, 103, 32, 116, 121, 112, 101, 32, 97, 110, 110, 111, 116, 97, 116, 105, 111, 110, 115, 58, 10>>  \* 'Missing type annotations:\n'
hNaming == <<78, 97, 109, 105, 110, 103, 32, 67, 111, 110, 118, 101, 110, 116, 105, 111, 110, 32, 67, 104, 101, 99, 107>>  \* 'Naming Convention Check'
sAllNames == <<65, 108, 108, 32, 110, 97, 109, 101, 115, 32, 97, 100, 104, 101, 114, 101, 32, 116, 111, 32, 116, 104, 101, 32, 115, 112, 101, 99, 105, 102, 105, 101, 100, 32, 99, 111, 110, 118, 101, 110, 116, 105, 111, 110, 115, 46>>  \* 'All names adhere to the specified conventions.'
sBadClasses == <<67, 108, 97, 115, 115, 101, 115, 32, 110, 111, 116, 32, 117, 115, 105, 110, 103, 32, 67, 97, 109, 101, 108, 67, 97, 115, 101, 58, 32>>  \* 'Classes not using CamelCase: '
sBadFuncs == <<70, 117, 110, 99, 116, 105, 111, 110, 115, 47, 109, 101, 116, 104, 111, 100, 115, 32, 110, 111, 116, 32, 117, 115, 105, 110, 103, 32, 115, 110, 97, 107, 101, 95, 99, 97, 115, 101, 58, 32>>  \* 'Functions/methods not using snake_case: '
sPath == <<120, 46, 112, 121>>  \* 'x.py'

-----------------------------------------------------------------------------
\* str operations.

\* c.isupper() for one character: the ASCII capitals (category Lu).  A
\* titlecase letter is cased but not uppercase.
IsUpperChar(c) == c \in 65..90

\* c.lower() for one character: ASCII capitals map to their small letters,
\* U+1F88..U+1F8F map to U+1F80..U+1F87; everything else is unchanged.
LowerChar(c) ==
    IF c \in 65..90 THEN c + 32
    ELSE IF c \in 8072..8079 THEN c - 8
    ELSE c

\* name.lower()
Lower(s) == [i \in 1..Len(s) |-> LowerChar(s[i])]

\* a < b for str: lexicographic by code point.
StrLess(a, b) ==
    \E k \in 1..(Len(b)) :
        /\ k - 1 <= Len(a)
        /\ \A i \in 1..(k - 1) : a[i] = b[i]
        /\ (k = Len(a) + 1 \/ (k <= Len(a) /\ a[k] < b[k]))

\* sep.join(items)
RECURSIVE Join(_, _)
Join(sep, items) ==
    IF Len(items) = 0 THEN <<>>
    ELSE IF Len(items) = 1 THEN items[1]
    ELSE items[1] \o sep \o Join(sep, Tail(items))

\* sorted(items) for a sequence of str: insertion into the sorted rest.
\* Equal strings are indistinguishable, so stability is not observable.
RECURSIVE InsertSorted(_, _)
InsertSorted(x, s) ==
    IF Len(s) = 0 THEN <<x>>
    ELSE IF StrLess(s[1], x) THEN <<s[1]>> \o InsertSorted(x, Tail(s))
    ELSE <<x>> \o s

RECURSIVE Sorted(_)
Sorted(items) ==
    IF Len(items) = 0 THEN <<>>
    ELSE InsertSorted(items[1], Sorted(Tail(items)))

\* The elements of a sequence, as a set: {x for x in items}.
ToSet(items) == {items[i] : i \in 1..Len(items)}

\* sorted(S) for a set of str.
RECURSIVE SortedSet(_)
SortedSet(S) ==
    IF S = {} THEN <<>>
    ELSE LET m == CHOOSE x \in S : \A y \in S : y = x \/ StrLess(x, y)
         IN <<m>> \o SortedSet(S \ {m})

\* str(n) for a line count.
RECURSIVE Decimal(_)
Decimal(n) ==
    IF n < 10 THEN <<48 + n>>
    ELSE Decimal(n \div 10) \o <<48 + (n % 10)>>

-----------------------------------------------------------------------------
\* The trees.

\* One node's attributes.  kind is the node's class; name is .name (or the
\* alias name of an Import); doc is the first body statement when it is a
\* string expression; args holds, for each of .args.args, whether it has an
\* annotation; vararg and kwarg are .args.vararg and .args.kwarg; returns
\* says whether .returns is set.
Node(kind, name, doc, args, vararg, kwarg, returns) ==
    [kind |-> kind, name |-> name, doc |-> doc, args |-> args,
     vararg |-> vararg, kwarg |-> kwarg, returns |-> returns]

ModuleNode == Node("Module", <<>>, <<>>, <<>>, <<>>, <<>>, FALSE)

\* A node of any other class (If, Pass, Expr, AsyncFunctionDef, ...).
OtherNode == Node("Other", <<>>, <<>>, <<>>, <<>>, <<>>, FALSE)

\* import os
ImportOs == Node("Import", sOs, <<>>, <<>>, <<>>, <<>>, FALSE)

\* class Foo: ...
ClassFoo == Node("ClassDef", sFoo, <<>>, <<>>, <<>>, <<>>, FALSE)

\* class foo_bar: " doc"
ClassFooBar == Node("ClassDef", sFooBar, <<sSpDoc>>, <<>>, <<>>, <<>>, FALSE)

\* def bar(x): ...
FuncBar == Node("FunctionDef", sBar, <<>>, <<FALSE>>, <<>>, <<>>, FALSE)

\* def baz(x: int) -> int: "doc"
FuncBaz == Node("FunctionDef", sBaz, <<sDoc>>, <<TRUE>>, <<>>, <<>>, TRUE)

\* def getValue(y: int, *args, **kw) -> int: ""
FuncGetValue ==
    Node("FunctionDef", sGetValue, << <<>> >>, <<TRUE>>, <<FALSE>>, <<FALSE>>, TRUE)

\* The statements a tree is built from.
NodeChoices ==
    {OtherNode, ImportOs, ClassFoo, ClassFooBar, FuncBar, FuncBaz, FuncGetValue}

\* The children lists of the tree in which node i > 1 is a child of pf[i],
\* children in increasing order.
RECURSIVE Ascending(_)
Ascending(S) ==
    IF S = {} THEN <<>>
    ELSE LET m == CHOOSE x \in S : \A y \in S : x <= y
         IN <<m>> \o Ascending(S \ {m})

ChildrenOf(n, pf) ==
    [p \in 1..n |-> Ascending({c \in 2..n : pf[c] = p})]

\* The parent choices: a node's parent is an earlier node.
ParentChoices(n) ==
    {pf \in [2..n -> 1..n] : \A c \in 2..n : pf[c] < c}

\* An Import statement holds no statement.
WellFormed(t) ==
    \A p \in DOMAIN t.node :
        t.node[p].kind = "Import" => t.children[p] = <<>>

\* The tree of n nodes with parents pf and statements nd under a Module root.
MakeTree(n, pf, nd) ==
    [children |-> ChildrenOf(n, pf),
     node |-> [i \in 1..n |-> IF i = Root THEN ModuleNode ELSE nd[i]]]

\* t is a tree of at most MaxNodes nodes: a Module root over statements.
IsTreeInput(t) ==
    \E n \in 1..MaxNodes :
        \E pf \in ParentChoices(n) :
            \E nd \in [2..n -> NodeChoices] :
                t = MakeTree(n, pf, nd) /\ WellFormed(t)

\* ast.iter_child_nodes(node)
iter_child_nodes(t, n) == t.children[n]

\* A walk that takes the children of a node before its later siblings.
RECURSIVE WalkFromDepthFirst(_, _)
WalkFromDepthFirst(t, todo) ==
    IF Len(todo) = 0 THEN <<>>
    ELSE <<todo[1]>> \o WalkFromDepthFirst(t, iter_child_nodes(t, todo[1]) \o Tail(todo))

\* ast.walk(tree): a queue that starts with the root; each node taken from the
\* front has its children appended at the back (breadth first).
RECURSIVE WalkFrom(_, _)
WalkFrom(t, todo) ==
    IF Len(todo) = 0 THEN <<>>
    ELSE <<todo[1]>> \o WalkFrom(t, Tail(todo) \o iter_child_nodes(t, todo[1]))

walk(t) == WalkFrom(t, <<Root>>)

\* isinstance(n, ast.X)
IsKind(t, n, kind) == n /= None /\ t.node[n].kind = kind

-----------------------------------------------------------------------------
\* build_parent_map

\* d | {k: v}: the dict d with key k set to v.
DictSet(d, k, v) ==
    [x \in (DOMAIN d) \cup {k} |-> IF x = k THEN v ELSE d[x]]

\* The dict comprehension {child: parent for ... for ...}: the pairs in
\* iteration order, a later pair replacing an earlier one with the same key.
RECURSIVE DictOfPairs(_, _)
DictOfPairs(d, pairs) ==
    IF Len(pairs) = 0 THEN d
    ELSE DictOfPairs(DictSet(d, pairs[1][1], pairs[1][2]), Tail(pairs))

\* The (child, parent) pairs of one parent, in child order.
ChildPairs(t, p) ==
    [i \in 1..Len(iter_child_nodes(t, p)) |-> <<iter_child_nodes(t, p)[i], p>>]

RECURSIVE AllChildPairs(_, _)
AllChildPairs(t, ps) ==
    IF Len(ps) = 0 THEN <<>>
    ELSE ChildPairs(t, ps[1]) \o AllChildPairs(t, Tail(ps))

EmptyDict == [x \in {} |-> None]

\* A parent map built without the final | {tree: None}.
build_parent_map_without_root(t) ==
    DictOfPairs(EmptyDict, AllChildPairs(t, WalkFrom(t, <<Root>>)))

build_parent_map(t) ==
    DictSet(DictOfPairs(EmptyDict, AllChildPairs(t, walk(t))), Root, None)

\* parents.get(node)
DictGet(d, k) == IF k \in DOMAIN d THEN d[k] ELSE None

is_method(t, n, ps) == IsKind(t, DictGet(ps, n), "ClassDef")

-----------------------------------------------------------------------------
\* Exceptions.  parents[node] raises KeyError when node is no key; the
\* string sKeyError stands for a name whose evaluation raised.

KeyError == -1

sKeyError == <<-1>>

\* parents[node]
Subscript(d, k) == IF k \in DOMAIN d THEN d[k] ELSE KeyError

\* f"{parents[n].name}.{n.name}"
QualifiedName(t, n, ps) ==
    IF Subscript(ps, n) = KeyError THEN sKeyError
    ELSE t.node[Subscript(ps, n)].name \o sDot \o t.node[n].name

-----------------------------------------------------------------------------
\* Structure

packages_imported(t) ==
    LET imports ==
            {t.node[n].name : n \in {m \in ToSet(walk(t)) : IsKind(t, m, "Import")}}
            \cup {t.node[n].name : n \in {m \in ToSet(walk(t)) :
                      IsKind(t, m, "ImportFrom") /\ t.node[m].name /= <<>>}}
    IN SortedSet(imports)

classes_defined(t) ==
    SortedSet({t.node[n].name : n \in {m \in ToSet(walk(t)) : IsKind(t, m, "ClassDef")}})

\* An inventory that does not leave the methods out.
functions_defined_with_methods(t, ps) ==
    SortedSet({t.node[n].name : n \in {m \in ToSet(walk(t)) :
                   IsKind(t, m, "FunctionDef")}})

functions_defined(t, ps) ==
    SortedSet({t.node[n].name : n \in {m \in ToSet(walk(t)) :
                   IsKind(t, m, "FunctionDef") /\ ~is_method(t, m, ps)}})

-----------------------------------------------------------------------------
\* Docstrings

\* inspect.cleandoc for a one-line docstring without tabs: the leading
\* blanks of the first line are stripped (a line left empty is dropped).
RECURSIVE LStrip(_)
LStrip(s) ==
    IF Len(s) > 0 /\ s[1] = 32 THEN LStrip(Tail(s)) ELSE s

cleandoc(s) == LStrip(s)

\* ast.get_docstring(node): None, or the cleaned text of the leading string.
get_docstring(t, n) ==
    IF t.node[n].doc = <<>> THEN <<>> ELSE <<cleandoc(t.node[n].doc[1])>>

\* bool(doc) for doc: str | None
Truthy(opt) == opt /= <<>> /\ opt[1] /= <<>>

\* The name fmt gives a node.
fmt_name(t, n, ps) ==
    IF IsKind(t, n, "FunctionDef") /\ is_method(t, n, ps)
    THEN QualifiedName(t, n, ps)
    ELSE t.node[n].name

\* docstring_entries.fmt
fmt(t, n, ps) ==
    LET name == fmt_name(t, n, ps)
        doc  == get_docstring(t, n)
    IN IF name = sKeyError THEN sKeyError
       ELSE IF Truthy(doc) THEN name \o sColonSp \o doc[1]
       ELSE name \o sNotFound

\* An audit that formats the functions only.
docstring_nodes_functions_only(t) ==
    LET IsDef(n) == IsKind(t, n, "FunctionDef")
    IN SelectSeq(walk(t), IsDef)

\* The nodes docstring_entries formats, in the order it meets them.
docstring_nodes(t) ==
    LET IsDef(n) == IsKind(t, n, "ClassDef") \/ IsKind(t, n, "FunctionDef")
    IN SelectSeq(walk(t), IsDef)

docstring_entries(t, ps) ==
    [i \in 1..Len(docstring_nodes(t)) |-> fmt(t, docstring_nodes(t)[i], ps)]

-----------------------------------------------------------------------------
\* Type annotations

\* missing_type_annotations.incomplete
incomplete(t, n) ==
    \/ \E i \in 1..Len(t.node[n].args) : ~t.node[n].args[i]
    \/ ~t.node[n].returns

\* A name that is never qualified.
ann_name_bare(t, n, ps) == t.node[n].name

\* The name missing_type_annotations gives a function.
ann_name(t, n, ps) ==
    IF is_method(t, n, ps) THEN QualifiedName(t, n, ps) ELSE t.node[n].name

\* The generator handed to sorted(): one name per incomplete function.
missing_names(t, ps) ==
    LET Hit(n) == IsKind(t, n, "FunctionDef") /\ incomplete(t, n)
        hits == SelectSeq(walk(t), Hit)
    IN [i \in 1..Len(hits) |-> ann_name(t, hits[i], ps)]

missing_type_annotations(t, ps) == Sorted(missing_names(t, ps))

-----------------------------------------------------------------------------
\* Naming conventions

_violates_camel(name) ==
    ~(name /= <<>> /\ IsUpperChar(name[1]) /\ 95 \notin ToSet(name))

\* A check that only looks for uppercase characters.
_violates_snake_isupper_only(name) ==
    \E i \in 1..Len(name) : name[i] /= 95 /\ IsUpperChar(name[i])

_violates_snake(name) ==
    \/ name /= Lower(name)
    \/ \E i \in 1..Len(name) : name[i] /= 95 /\ IsUpperChar(name[i])

\* The name naming_violations gives a function.
viol_name(t, n, ps) ==
    IF is_method(t, n, ps) THEN QualifiedName(t, n, ps) ELSE t.node[n].name

\* naming_violations(tree, parents)[0]
bad_classes_of(t) ==
    SortedSet({t.node[n].name : n \in {m \in ToSet(walk(t)) :
                   IsKind(t, m, "ClassDef") /\ _violates_camel(t.node[m].name)}})

\* The set of names sorted into naming_violations(tree, parents)[1].
bad_func_names(t, ps) ==
    {viol_name(t, n, ps) : n \in {m \in ToSet(walk(t)) :
         IsKind(t, m, "FunctionDef") /\ _violates_snake(t.node[m].name)}}

bad_funcs_of(t, ps) == SortedSet(bad_func_names(t, ps))

\* naming_violations raises when a name it builds raises.
naming_violations(t, ps) ==
    IF sKeyError \in bad_func_names(t, ps) THEN <<sKeyError>>
    ELSE <<bad_classes_of(t), bad_funcs_of(t, ps)>>

-----------------------------------------------------------------------------
\* Report

\* ', '.join(names) if names else 'None'
NamesOrNone(names) == IF Len(names) > 0 THEN Join(sCommaSp, names) ELSE sNone

\* filter(None, items): the non-empty strings.
FilterNone(items) == LET NonEmpty(x) == x /= <<>> IN SelectSeq(items, NonEmpty)

\* The list render_report joins.
report_lines(path_name, total_lines, pk, cl, fn, ds, ma, bc, bf) ==
    << hFile \o path_name,
       hTotal \o Decimal(total_lines),
       <<>>,
       hFileStructure,
       hPackages \o NamesOrNone(pk),
       hClasses \o NamesOrNone(cl),
       hFunctions \o NamesOrNone(fn),
       <<>>,
       hDocStrings >>
    \o ds
    \o << <<>>,
          hTypeCheck,
          IF Len(ma) = 0 THEN sAllAnnotated ELSE sMissing \o Join(sNewline, ma),
          <<>>,
          hNaming,
          IF Len(bc) = 0 /\ Len(bf) = 0 THEN sAllNames
          ELSE Join(sNewline, FilterNone(<<
                   IF Len(bc) > 0 THEN sBadClasses \o Join(sCommaSp, bc) ELSE <<>>,
                   IF Len(bf) > 0 THEN sBadFuncs \o Join(sCommaSp, bf) ELSE <<>> >>)) >>

render_report(path_name, total_lines, pk, cl, fn, ds, ma, bc, bf) ==
    Join(sNewline, report_lines(path_name, total_lines, pk, cl, fn, ds, ma, bc, bf))

\* len(lines) for the source texts read: the tree does not determine it.
LineCounts == {0, 7, 12}

-----------------------------------------------------------------------------
\* main(), one step per call.

Unset == <<>>

InitRest ==
    /\ parents = EmptyDict
    /\ packages = Unset
    /\ classes = Unset
    /\ functions = Unset
    /\ docstrings = Unset
    /\ missing_ann = Unset
    /\ bad_classes = Unset
    /\ bad_funcs = Unset
    /\ report = Unset
    /\ fault = FALSE
    /\ pc = "build_parent_map"

\* The state after parse_tree: any tree, nothing computed yet.
Init == IsTreeInput(tree) /\ InitRest

\* An uncaught exception ends the run.
Raise ==
    /\ fault' = TRUE
    /\ pc' = "fault"

BuildParentMap ==
    /\ pc = "build_parent_map"
    /\ parents' = build_parent_map(tree)
    /\ pc' = "packages_imported"
    /\ UNCHANGED <<tree, packages, classes, functions, docstrings, missing_ann,
                   bad_classes, bad_funcs, report, fault>>

PackagesImported ==
    /\ pc = "packages_imported"
    /\ packages' = packages_imported(tree)
    /\ pc' = "classes_defined"
    /\ UNCHANGED <<tree, parents, classes, functions, docstrings, missing_ann,
                   bad_classes, bad_funcs, report, fault>>

ClassesDefined ==
    /\ pc = "classes_defined"
    /\ classes' = classes_defined(tree)
    /\ pc' = "functions_defined"
    /\ UNCHANGED <<tree, parents, packages, functions, docstrings, missing_ann,
                   bad_classes, bad_funcs, report, fault>>

FunctionsDefined ==
    /\ pc = "functions_defined"
    /\ functions' = functions_defined(tree, parents)
    /\ pc' = "docstring_entries"
    /\ UNCHANGED <<tree, parents, packages, classes, docstrings, missing_ann,
                   bad_classes, bad_funcs, report, fault>>

DocstringEntries ==
    /\ pc = "docstring_entries"
    /\ IF sKeyError \in ToSet(docstring_entries(tree, parents))
       THEN Raise /\ UNCHANGED docstrings
       ELSE /\ docstrings' = docstring_entries(tree, parents)
            /\ pc' = "missing_type_annotations"
            /\ UNCHANGED fault
    /\ UNCHANGED <<tree, parents, packages, classes, functions, missing_ann,
                   bad_classes, bad_funcs, report>>

MissingTypeAnnotations ==
    /\ pc = "missing_type_annotations"
    /\ IF sKeyError \in ToSet(missing_names(tree, parents))
       THEN Raise /\ UNCHANGED missing_ann
       ELSE /\ missing_ann' = missing_type_annotations(tree, parents)
            /\ pc' = "bad_classes"
            /\ UNCHANGED fault
    /\ UNCHANGED <<tree, parents, packages, classes, functions, docstrings,
                   bad_classes, bad_funcs, report>>

\* bad_classes=naming_violations(tree, parents)[0]
NamingViolationsClasses ==
    /\ pc = "bad_classes"
    /\ IF naming_violations(tree, parents) = <<sKeyError>>
       THEN Raise /\ UNCHANGED bad_classes
       ELSE /\ bad_classes' = naming_violations(tree, parents)[1]
            /\ pc' = "bad_funcs"
            /\ UNCHANGED fault
    /\ UNCHANGED <<tree, parents, packages, classes, functions, docstrings,
                   missing_ann, bad_funcs, report>>

\* bad_funcs=naming_violations(tree, parents)[1]
NamingViolationsFuncs ==
    /\ pc = "bad_funcs"
    /\ IF naming_violations(tree, parents) = <<sKeyError>>
       THEN Raise /\ UNCHANGED bad_funcs
       ELSE /\ bad_funcs' = naming_violations(tree, parents)[2]
            /\ pc' = "render_report"
            /\ UNCHANGED fault
    /\ UNCHANGED <<tree, parents, packages, classes, functions, docstrings,
                   missing_ann, bad_classes, report>>

RenderReport ==
    /\ pc = "render_report"
    /\ \E total_lines \in LineCounts :
          report' = render_report(sPath, total_lines, packages, classes, functions,
                                  docstrings, missing_ann, bad_classes, bad_funcs)
    /\ pc' = "done"
    /\ UNCHANGED <<tree, parents, packages, classes, functions, docstrings,
                   missing_ann, bad_classes, bad_funcs, fault>>

Auditors ==
    \/ PackagesImported
    \/ ClassesDefined
    \/ FunctionsDefined
    \/ DocstringEntries
    \/ MissingTypeAnnotations
    \/ NamingViolationsClasses
    \/ NamingViolationsFuncs
    \/ RenderReport

Next == BuildParentMap \/ Auditors

Spec == Init /\ [][Next]_vars

-----------------------------------------------------------------------------
\* The naming inputs: a function, at module level or in a class, under every
\* name of at most MaxNameLen characters.

\* 'a', 'V', '_', '1', and U+1F88: a titlecase letter (category Lt), which
\* is a valid identifier character that NFKC normalisation keeps.
NameAlphabet == {97, 86, 95, 49, 8072}

\* The identifiers: an identifier does not start with a digit.
NameInputs ==
    {nm \in UNION {[1..k -> NameAlphabet] : k \in 1..MaxNameLen} : nm[1] /= 49}

\* def <name>() -> None: ...
FuncNamed(nm) == Node("FunctionDef", nm, <<>>, <<>>, <<>>, <<>>, TRUE)

NameTrees ==
    {[children |-> <<<<2>>, <<>>>>,
      node |-> <<ModuleNode, FuncNamed(nm)>>] : nm \in NameInputs}
    \cup
    {[children |-> <<<<2>>, <<3>>, <<>>>>,
      node |-> <<ModuleNode, ClassFoo, FuncNamed(nm)>>] : nm \in NameInputs}

InitNames == tree \in NameTrees /\ InitRest

SpecNames == InitNames /\ [][Next]_vars

-----------------------------------------------------------------------------
\* The auditors take the parent map as an argument: a caller may hand them a
\* map in which a node of the tree is no key.

\* d without key k.
DictWithout(d, k) == [x \in (DOMAIN d) \ {k} |-> d[x]]

MalformedParentMap ==
    /\ pc = "build_parent_map"
    /\ \E k \in DOMAIN build_parent_map(tree) :
          parents' = DictWithout(build_parent_map(tree), k)
    /\ pc' = "packages_imported"
    /\ UNCHANGED <<tree, packages, classes, functions, docstrings, missing_ann,
                   bad_classes, bad_funcs, report, fault>>

NextMalformed == MalformedParentMap \/ Auditors

SpecMalformed == Init /\ [][NextMalformed]_vars

-----------------------------------------------------------------------------
\* What the properties speak of: the tree itself, read from its children
\* lists, and the stages of a run.

NodesOf(t) == DOMAIN t.node

\* The nodes reachable from the root in at most k steps.
RECURSIVE ReachableIn(_, _)
ReachableIn(t, k) ==
    IF k = 0 THEN {Root}
    ELSE LET R == ReachableIn(t, k - 1)
         IN R \cup UNION {ToSet(t.children[p]) : p \in R}

Reachable(t) == ReachableIn(t, Len(t.node))

\* The node whose children list holds n (None for the root).
ActualParent(t, n) ==
    IF \E p \in NodesOf(t) : n \in ToSet(t.children[p])
    THEN CHOOSE p \in NodesOf(t) : n \in ToSet(t.children[p])
    ELSE None

IsFunction(t, n) == t.node[n].kind = "FunctionDef"

IsClass(t, n) == t.node[n].kind = "ClassDef"

FunctionNodes(t) == {n \in NodesOf(t) : IsFunction(t, n)}

DefNodes(t) == {n \in NodesOf(t) : IsFunction(t, n) \/ IsClass(t, n)}

\* A function directly in a class body.
IsMethodNode(t, n) ==
    /\ IsFunction(t, n)
    /\ ActualParent(t, n) /= None
    /\ IsClass(t, ActualParent(t, n))

\* Class.function for a method, the bare name otherwise.
ExpectedName(t, n) ==
    IF IsMethodNode(t, n)
    THEN t.node[ActualParent(t, n)].name \o sDot \o t.node[n].name
    ELSE t.node[n].name

HasPrefix(s, p) == Len(p) <= Len(s) /\ SubSeq(s, 1, Len(p)) = p

RECURSIVE DepthOf(_, _)
DepthOf(t, n) == IF n = Root THEN 0 ELSE 1 + DepthOf(t, ActualParent(t, n))

\* Tree pre-order: a node, then the subtrees of its children, left to right.
RECURSIVE PreOrderFrom(_, _)
PreOrderFrom(t, todo) ==
    IF Len(todo) = 0 THEN <<>>
    ELSE <<todo[1]>> \o PreOrderFrom(t, t.children[todo[1]] \o Tail(todo))

PreOrder(t) == PreOrderFrom(t, <<Root>>)

\* The nodes at depth d and below it, level by level; within one level the
\* nodes keep their pre-order (left to right).
RECURSIVE LevelsFrom(_, _, _)
LevelsFrom(t, po, d) ==
    IF d >= Len(t.node) THEN <<>>
    ELSE LET AtDepth(n) == DepthOf(t, n) = d
         IN SelectSeq(po, AtDepth) \o LevelsFrom(t, po, d + 1)

\* Level order: by depth, and left to right within one depth.
LevelOrder(t) == LevelsFrom(t, PreOrder(t), 0)

\* The text split at every '\n'.
RECURSIVE SplitLines(_)
SplitLines(s) ==
    IF \E i \in 1..Len(s) : s[i] = 10
    THEN LET i == CHOOSE j \in 1..Len(s) : s[j] = 10 /\ \A k \in 1..(j - 1) : s[k] /= 10
         IN <<SubSeq(s, 1, i - 1)>> \o SplitLines(SubSeq(s, i + 1, Len(s)))
    ELSE <<s>>

\* The stages of a run: a call has just returned, its result is bound (no
\* later step changes it).
ParentsBuilt == pc = "packages_imported"

FunctionsReturned == pc = "docstring_entries"

DocstringsReturned == pc = "missing_type_annotations"

MissingReturned == pc = "bad_classes"

NamingReturned == pc = "render_report"

\* The tree of the scenario: class Foo with method bar(x), and a module-level
\* baz(x: int) -> int with docstring "doc" after it.
ScenarioTree ==
    [children |-> <<<<2, 4>>, <<3>>, <<>>, <<>>>>,
     node |-> <<ModuleNode, ClassFoo, FuncBar, FuncBaz>>]

-----------------------------------------------------------------------------
\* Properties.

\* C1: the parent map has exactly the nodes reachable from the root as its
\* keys, maps the root to None, and maps every other node to the node whose
\* children list holds it.
C1_ParentMapExact ==
    ParentsBuilt =>
        /\ DOMAIN parents = Reachable(tree)
        /\ parents[Root] = None
        /\ \A n \in Reachable(tree) \ {Root} :
              /\ parents[n] /= None
              /\ n \in ToSet(tree.children[parents[n]])
              /\ parents[n] = ActualParent(tree, n)

\* A map has been built for a tree with a node below a child of the root.
C1_Witness ==
    /\ ParentsBuilt
    /\ \E n \in DOMAIN parents : parents[n] /= None /\ parents[n] /= Root

\* C2: the three auditors name a method Class.function, all alike: each
\* docstring entry starts with the expected name of its node, and the names
\* reported for annotations and for naming are exactly the expected names
\* of the functions reported.
C2_MethodsQualifiedAlike ==
    NamingReturned =>
        /\ Len(docstrings) = Len(docstring_nodes(tree))
        /\ \A i \in 1..Len(docstrings) :
              HasPrefix(docstrings[i],
                        ExpectedName(tree, docstring_nodes(tree)[i]) \o sColonSp)
        /\ ToSet(missing_ann) =
              {ExpectedName(tree, n) :
                  n \in {m \in FunctionNodes(tree) : incomplete(tree, m)}}
        /\ ToSet(bad_funcs) =
              {ExpectedName(tree, n) :
                  n \in {m \in FunctionNodes(tree) : _violates_snake(tree.node[m].name)}}
        /\ \A n \in FunctionNodes(tree) :
              IsMethodNode(tree, n) =>
                 LET q == tree.node[ActualParent(tree, n)].name \o sDot \o tree.node[n].name
                 IN /\ fmt_name(tree, n, parents) = q
                    /\ ann_name(tree, n, parents) = q
                    /\ viol_name(tree, n, parents) = q

\* All three auditors have run on a tree with a method that lacks annotations
\* and a method whose name is not snake_case.
C2_Witness ==
    /\ NamingReturned
    /\ \E n \in FunctionNodes(tree) :
          /\ IsMethodNode(tree, n)
          /\ incomplete(tree, n)
          /\ ExpectedName(tree, n) \in ToSet(missing_ann)
    /\ \E n \in FunctionNodes(tree) :
          /\ IsMethodNode(tree, n)
          /\ ExpectedName(tree, n) \in ToSet(bad_funcs)

\* C3: functions_defined returns exactly the names of the function nodes whose
\* immediate parent is not a class; for class Foo with method bar and a
\* module-level baz it returns (baz).
C3_FunctionsAreNonMethods ==
    FunctionsReturned =>
        /\ ToSet(functions) =
              {tree.node[n].name :
                  n \in {m \in FunctionNodes(tree) : ~IsMethodNode(tree, m)}}
        /\ tree = ScenarioTree => functions = <<sBaz>>

\* The inventory has run on a tree with a method and a function nested in it.
C3_Witness ==
    /\ FunctionsReturned
    /\ \E n, m \in FunctionNodes(tree) :
          /\ IsMethodNode(tree, n)
          /\ ActualParent(tree, m) = n
          /\ tree.node[m].name \in ToSet(functions)
          /\ tree.node[n].name \notin ToSet(functions)

\* A function is incomplete when a parameter, a catch-all included, lacks an
\* annotation, or the return type does.
IncompleteWithCatchAlls(t, n) ==
    \/ \E i \in 1..Len(t.node[n].args) : ~t.node[n].args[i]
    \/ t.node[n].vararg = <<FALSE>>
    \/ t.node[n].kwarg = <<FALSE>>
    \/ ~t.node[n].returns

\* C4: missing_type_annotations reports a function exactly when one of its
\* parameters, *args and **kwargs counted like the others, or its return
\* type is unannotated.
C4_CatchAllsCount ==
    MissingReturned =>
        ToSet(missing_ann) =
            {ExpectedName(tree, n) :
                n \in {m \in FunctionNodes(tree) : IncompleteWithCatchAlls(tree, m)}}

\* C5: the names missing_type_annotations returns are sorted and hold no
\* duplicate.
C5_SortedNoDuplicates ==
    MissingReturned =>
        \A i, j \in 1..Len(missing_ann) :
            i < j => StrLess(missing_ann[i], missing_ann[j])

\* The entry of a node whose leading docstring, cleaned, is non-empty.
EntryWithDoc(t, n) ==
    ExpectedName(t, n) \o sColonSp \o cleandoc(t.node[n].doc[1])

EntryNotFound(t, n) == ExpectedName(t, n) \o sNotFound

\* The entry as first stated: the docstring whenever the node has one.
EntryStated(t, n) ==
    IF t.node[n].doc /= <<>> THEN EntryWithDoc(t, n) ELSE EntryNotFound(t, n)

\* The entry as amended: the docstring when it is not empty after cleaning.
EntryAmended(t, n) ==
    IF t.node[n].doc /= <<>> /\ cleandoc(t.node[n].doc[1]) /= <<>>
    THEN EntryWithDoc(t, n)
    ELSE EntryNotFound(t, n)

\* The definition nodes, by node number.
DefNodeSeq(t) ==
    LET IsDef(n) == n \in DefNodes(t)
    IN SelectSeq([i \in 1..Len(t.node) |-> i], IsDef)

\* Two sequences of strings hold the same strings, each as often.
SameEntries(a, b) == Sorted(a) = Sorted(b)

\* C6 as stated: one entry per class and function node, carrying the node's
\* docstring when it has one and the marker when it has none.
C6_EntryPerNodeStated ==
    DocstringsReturned =>
        SameEntries(docstrings,
                    [i \in 1..Len(DefNodeSeq(tree)) |->
                        EntryStated(tree, DefNodeSeq(tree)[i])])

\* C6 as amended: one entry per class and function node, carrying the node's
\* cleaned docstring when that is not empty, and the marker when the node has
\* no docstring or an empty one.
C6_EntryPerNode ==
    DocstringsReturned =>
        SameEntries(docstrings,
                    [i \in 1..Len(DefNodeSeq(tree)) |->
                        EntryAmended(tree, DefNodeSeq(tree)[i])])

\* Entries exist for a node with a docstring, one with an empty docstring and
\* one with none.
C6_Witness ==
    /\ DocstringsReturned
    /\ \E a, b, c \in DefNodes(tree) :
          /\ tree.node[a].doc /= <<>> /\ cleandoc(tree.node[a].doc[1]) /= <<>>
          /\ tree.node[b].doc = << <<>> >>
          /\ tree.node[c].doc = <<>>
          /\ EntryWithDoc(tree, a) \in ToSet(docstrings)
          /\ EntryNotFound(tree, b) \in ToSet(docstrings)
          /\ EntryNotFound(tree, c) \in ToSet(docstrings)

\* The entries of the definition nodes among a sequence of nodes.
EntriesAlong(order) ==
    LET IsDef(n) == n \in DefNodes(tree)
        defs == SelectSeq(order, IsDef)
    IN [i \in 1..Len(defs) |-> fmt(tree, defs[i], parents)]

\* C7 as stated: the entries are in tree pre-order of their nodes.
C7_PreOrderStated == DocstringsReturned => docstrings = EntriesAlong(PreOrder(tree))

\* C7 as amended: the entries are in level order of their nodes: by depth,
\* and left to right within one depth.
C7_LevelOrder ==
    DocstringsReturned =>
        docstrings = EntriesAlong(LevelOrder(tree))

\* Entries exist whose level order is not their pre-order.
C7_Witness ==
    /\ DocstringsReturned
    /\ EntriesAlong(LevelOrder(tree)) /= EntriesAlong(PreOrder(tree))

\* The headers of the four sections.
SectionHeaders == {hFileStructure, hDocStrings, hTypeCheck, hNaming}

\* C8: the report of a file without classes, functions and imports has,
\* under each section header, a line that says None or states compliance.
C8_EmptyFileSections ==
    (/\ pc = "done"
     /\ packages = <<>> /\ classes = <<>> /\ functions = <<>>
     /\ docstrings = <<>> /\ missing_ann = <<>>
     /\ bad_classes = <<>> /\ bad_funcs = <<>>)
    => \A h \in SectionHeaders :
          \E i \in 1..(Len(SplitLines(report)) - 1) :
              /\ SplitLines(report)[i] = h
              /\ SplitLines(report)[i + 1] /= <<>>

DiffersFromLower(name) == name /= Lower(name)

HasUpperOutsideUnderscores(name) ==
    \E i \in 1..Len(name) : name[i] /= 95 /\ IsUpperChar(name[i])

IsAscii(name) == \A i \in 1..Len(name) : name[i] < 128

Reported(n) == ExpectedName(tree, n) \in ToSet(bad_funcs)

sDoThing == <<68, 111, 84, 104, 105, 110, 103>>  \* 'DoThing'
sGet_value == <<103, 101, 116, 95, 118, 97, 108, 117, 101>>  \* 'get_value'
sLowerFoo == <<102, 111, 111>>  \* 'foo'

\* C9 as stated: for every name the two formulations agree, and a function
\* is reported exactly when its name is not its own lowercased form.
C9_FormulationsAgreeStated ==
    NamingReturned =>
        \A n \in FunctionNodes(tree) :
            /\ DiffersFromLower(tree.node[n].name)
                  <=> HasUpperOutsideUnderscores(tree.node[n].name)
            /\ Reported(n) <=> DiffersFromLower(tree.node[n].name)

\* C9 as amended: the two formulations agree for every ASCII name, and a
\* function is reported exactly when one of them holds of its name;
\* getValue and DoThing are violations, get_value and foo are not.
C9_SnakeCheck ==
    NamingReturned =>
        /\ \A n \in FunctionNodes(tree) :
              /\ IsAscii(tree.node[n].name) =>
                    (DiffersFromLower(tree.node[n].name)
                        <=> HasUpperOutsideUnderscores(tree.node[n].name))
              /\ Reported(n) <=>
                    (\/ DiffersFromLower(tree.node[n].name)
                     \/ HasUpperOutsideUnderscores(tree.node[n].name))
        /\ _violates_snake(sGetValue) /\ _violates_snake(sDoThing)
        /\ ~_violates_snake(sGet_value) /\ ~_violates_snake(sLowerFoo)

\* A function is reported whose name has a titlecase letter and no
\* uppercase one.
C9_Witness ==
    /\ NamingReturned
    /\ \E n \in FunctionNodes(tree) :
          /\ Reported(n)
          /\ ~HasUpperOutsideUnderscores(tree.node[n].name)
          /\ ~IsAscii(tree.node[n].name)

\* C10: a run in which an auditor asks the parent map about a function node
\* that is no key of it ends in a fault: functions_defined does not return
\* from such a call.
C10_MissingNodeFaults ==
    (/\ FunctionsReturned
     /\ \E n \in FunctionNodes(tree) : n \notin DOMAIN parents)
    => fault

====
